---- MODULE Spec2Model ----
(***************************************************************************)
(* The potential-to-field pipeline of src/3dlab.py and src/lab.py:         *)
(* CSV file -> ndarray -> (Gaussian smoothing) -> negative gradient ->     *)
(* field magnitude -> arrow normalisation (3dlab) / density rescaling (lab)*)
(*                                                                         *)
(* Numbers.  A float64 is modelled as what it is: a sign, a significand of *)
(* at most 53 bits and a binary exponent (or NaN, an infinity); every      *)
(* operation rounds its exact result to the nearest such number, ties to   *)
(* even.  Overflow, underflow and the sign of zero do not arise on the     *)
(* values handled here and are left out.  A non-numeric CSV cell is kind   *)
(* "str".  Array indices are 0-based as in the source.                     *)
(***************************************************************************)
EXTENDS Integers, Sequences, FiniteSets, TLC

VARIABLES
    script,        \* which entry point runs: "3dlab", "lab", or a direct call
    csv,           \* the CSV file at file_path
    pc,            \* position in the script
    err,           \* the exception that ended the run, "" if none
    reported,      \* the load error load_voltage_data printed, "" if none
    calls,         \* the steps entered so far, in order
    voltage_data,  \* voltage_data (3dlab.py) / potential_data (lab.py)
    loaded,        \* the array as the loader returned it
    fieldSource,   \* the array handed to np.gradient
    surface,       \* the array handed to plot_surface / contour
    dx, dy,        \* the lattice spacings of the field computation
    Ex, Ey,        \* the field components
    E_magnitude,   \* np.sqrt(Ex**2 + Ey**2)
    step,          \* the arrow sampling stride
    i, j,          \* the arrow loops' indices
    visited,       \* the lattice points the arrow loops have sampled
    arrow,         \* the last arrow: its point, denominator and components
    density_grid,  \* lab.py: the interpolated field magnitude
    density_range  \* lab.py: density_grid.max() - density_grid.min()

vars == <<script, csv, pc, err, reported, calls, voltage_data, loaded,
          fieldSource, surface, dx, dy, Ex, Ey, E_magnitude, step, i, j,
          visited, arrow, density_grid, density_range>>

(***************************************************************************)
(* Bounds of the model.                                                    *)
(***************************************************************************)
MaxSmall == 3      \* small grids have 1..MaxSmall rows and columns
MaxExtra == 1      \* tall grids have k*15 .. k*15+MaxExtra rows
MaxStride == 2     \* tall grids reach sampling strides 1..MaxStride
MaxComp == 4       \* direct normalisation: components are -MaxComp..MaxComp over a denominator
MaxHalves == 3     \* direct field calls: spacings are 1/2 .. MaxHalves/2
TinyDen == 1000    \* direct normalisation: the finest denominator
PeakVolts == 10    \* a peak adds 0 or PeakVolts volts to one cell

(***************************************************************************)
(* Program constants.                                                      *)
(***************************************************************************)
StrideDiv == 15         \* rows//15, cols//15
KernelRadius == 2       \* int(truncate * sigma + 0.5) = int(4.0 * 0.5 + 0.5)
InterpPoints == 30      \* nx, ny = 30, 30
MantBits == 53          \* the significand of a float64
LimbBits == 15          \* a significand is written in limbs of LimbBits bits
Base == 32768           \* 2^LimbBits
DivBits == 55           \* quotient bits computed before rounding
SqrtBits == 56          \* root bits computed before rounding

(***************************************************************************)
(* Integer helpers.                                                        *)
(***************************************************************************)
Abs(x) == IF x < 0 THEN -x ELSE x

Min(a, b) == IF a <= b THEN a ELSE b

Max(a, b) == IF a >= b THEN a ELSE b

Pow2(r) == 2 ^ r

(***************************************************************************)
(* Long naturals: little-endian limb sequences in base Base = 2^LimbBits,  *)
(* without high zero limbs (<< >> is 0).  They are the significands of the *)
(* float64 values.                                                         *)
(***************************************************************************)
RECURSIVE BigTrim(_)
BigTrim(a) ==
    IF a = << >> THEN << >>
    ELSE IF a[Len(a)] = 0 THEN BigTrim(SubSeq(a, 1, Len(a) - 1))
    ELSE a

RECURSIVE BigOfNat(_)
BigOfNat(n) == IF n = 0 THEN << >> ELSE <<n % Base>> \o BigOfNat(n \div Base)

RECURSIVE BigAddC(_, _, _)
BigAddC(a, b, c) ==
    IF a = << >> /\ b = << >> THEN (IF c = 0 THEN << >> ELSE <<c>>)
    ELSE LET x == IF a = << >> THEN 0 ELSE Head(a)
             y == IF b = << >> THEN 0 ELSE Head(b)
             t == x + y + c
         IN  <<t % Base>> \o BigAddC(IF a = << >> THEN << >> ELSE Tail(a),
                                     IF b = << >> THEN << >> ELSE Tail(b),
                                     t \div Base)

BigAdd(a, b) == BigAddC(a, b, 0)

\* a - b - c for a >= b + c
RECURSIVE BigSubC(_, _, _)
BigSubC(a, b, c) ==
    IF a = << >> THEN << >>
    ELSE LET y == IF b = << >> THEN 0 ELSE Head(b)
             t == Head(a) - y - c
         IN  <<t % Base>> \o BigSubC(Tail(a), IF b = << >> THEN << >> ELSE Tail(b),
                                     IF t < 0 THEN 1 ELSE 0)

BigSub(a, b) == BigTrim(BigSubC(a, b, 0))

\* a * k + c for a limb k
RECURSIVE BigMulLimb(_, _, _)
BigMulLimb(a, k, c) ==
    IF a = << >> THEN (IF c = 0 THEN << >> ELSE <<c>>)
    ELSE LET t == Head(a) * k + c
         IN  <<t % Base>> \o BigMulLimb(Tail(a), k, t \div Base)

RECURSIVE BigMul(_, _)
BigMul(a, b) ==
    IF a = << >> \/ b = << >> THEN << >>
    ELSE BigAdd(BigMulLimb(a, Head(b), 0),
                IF Tail(b) = << >> THEN << >> ELSE <<0>> \o BigMul(a, Tail(b)))

\* the sign of a - b, comparing from limb p downward
RECURSIVE BigCmpFrom(_, _, _)
BigCmpFrom(a, b, p) ==
    IF p = 0 THEN 0
    ELSE IF a[p] < b[p] THEN -1
    ELSE IF a[p] > b[p] THEN 1
    ELSE BigCmpFrom(a, b, p - 1)

BigCmp(a, b) ==
    IF Len(a) < Len(b) THEN -1
    ELSE IF Len(a) > Len(b) THEN 1
    ELSE BigCmpFrom(a, b, Len(a))

RECURSIVE BitLenLimb(_)
BitLenLimb(x) == IF x = 0 THEN 0 ELSE 1 + BitLenLimb(x \div 2)

\* the number of bits of a
BitLen(a) == IF a = << >> THEN 0 ELSE (Len(a) - 1) * LimbBits + BitLenLimb(a[Len(a)])

\* a * 2^n
BigShl(a, n) ==
    IF a = << >> THEN << >>
    ELSE [p \in 1 .. (n \div LimbBits) |-> 0] \o BigMulLimb(a, Pow2(n % LimbBits), 0)

\* floor(b / 2^r) for r < LimbBits
BigShrBits(b, r) ==
    IF r = 0 THEN b
    ELSE BigTrim([p \in 1 .. Len(b) |->
                    (b[p] \div Pow2(r))
                    + (IF p < Len(b) THEN (b[p + 1] % Pow2(r)) * Pow2(LimbBits - r)
                       ELSE 0)])

\* floor(a / 2^n)
BigShr(a, n) ==
    BigShrBits(IF n \div LimbBits >= Len(a) THEN << >>
               ELSE SubSeq(a, n \div LimbBits + 1, Len(a)),
               n % LimbBits)

\* bit n of a (bit 0 is the lowest)
BigBit(a, n) ==
    IF n \div LimbBits >= Len(a) THEN 0
    ELSE (a[n \div LimbBits + 1] \div Pow2(n % LimbBits)) % 2

\* whether the n lowest bits of a are all 0
BigLowZero(a, n) ==
    /\ \A p \in 1 .. Min(Len(a), n \div LimbBits) : a[p] = 0
    /\ n \div LimbBits < Len(a) => a[n \div LimbBits + 1] % Pow2(n % LimbBits) = 0

RECURSIVE TrailingZerosLimb(_)
TrailingZerosLimb(x) == IF x % 2 = 1 THEN 0 ELSE 1 + TrailingZerosLimb(x \div 2)

\* the number of low zero bits of a # 0
RECURSIVE TrailingZeros(_)
TrailingZeros(a) ==
    IF Head(a) = 0 THEN LimbBits + TrailingZeros(Tail(a)) ELSE TrailingZerosLimb(Head(a))

\* the digit floor(r / b) for r < b * Base and a b whose high limb is at least
\* Base / 2: estimated from the high limbs, then corrected downward
RECURSIVE DigitDown(_, _, _)
DigitDown(r, b, qhat) ==
    IF BigCmp(BigMulLimb(b, qhat, 0), r) > 0 THEN DigitDown(r, b, qhat - 1) ELSE qhat

QuotDigit(r, b) ==
    IF BigCmp(r, b) < 0 THEN 0
    ELSE LET n == Len(b)
             top == IF Len(r) > n THEN r[n + 1] * Base + r[n] ELSE r[n]
         IN  DigitDown(r, b, Min(Base - 1, top \div b[n]))

\* long division of the limbs a[1 .. p], highest first, with running remainder r
RECURSIVE DivLimbs(_, _, _, _)
DivLimbs(a, p, r, b) ==
    IF p = 0 THEN [q |-> << >>, r |-> r]
    ELSE LET r1 == BigTrim(<<a[p]>> \o r)
             d == QuotDigit(r1, b)
             rest == DivLimbs(a, p - 1, BigSub(r1, BigMulLimb(b, d, 0)), b)
         IN  [q |-> Append(rest.q, d), r |-> rest.r]

\* q = floor(a / b) for b # 0; r is 0 exactly when b divides a
BigDivMod(a, b) ==
    LET s == LimbBits - BitLenLimb(b[Len(b)])
        res == DivLimbs(BigShl(a, s), Len(BigShl(a, s)), << >>, BigShl(b, s))
    IN  [q |-> BigTrim(res.q), r |-> res.r]

\* floor(sqrt(a)) by Newton's iteration from x >= sqrt(a)
RECURSIVE NewtonSqrt(_, _)
NewtonSqrt(a, x) ==
    LET y == BigShr(BigAdd(x, BigDivMod(a, x).q), 1)
    IN  IF BigCmp(y, x) >= 0 THEN x ELSE NewtonSqrt(a, y)

BigSqrt(a) == IF a = << >> THEN << >> ELSE NewtonSqrt(a, BigShl(<<1>>, (BitLen(a) + 1) \div 2))

(***************************************************************************)
(* float64 values: a finite number is s * m * 2^e with sign s, an odd long *)
(* natural m of at most MantBits bits and an exponent e (0 is s = 0); the  *)
(* others are NaN, the signed infinities, and a non-numeric CSV cell.      *)
(* X-operators are exact; the float64 operations round their result to the *)
(* nearest number of MantBits bits, ties to even.                          *)
(***************************************************************************)
NaN == [k |-> "nan", s |-> 0, m |-> << >>, e |-> 0]

Str == [k |-> "str", s |-> 0, m |-> << >>, e |-> 0]

Inf(s) == [k |-> "inf", s |-> s, m |-> << >>, e |-> 0]

Zero == [k |-> "num", s |-> 0, m |-> << >>, e |-> 0]

\* s * m * 2^e, written with an odd m
Flt(s, m, e) ==
    IF s = 0 \/ m = << >> THEN Zero
    ELSE [k |-> "num", s |-> s, m |-> BigShr(m, TrailingZeros(m)),
          e |-> e + TrailingZeros(m)]

\* the integer n
Num(n) == Flt(IF n < 0 THEN -1 ELSE 1, BigOfNat(Abs(n)), 0)

IsNum(x) == x.k = "num"

IsNaN(x) == x.k = "nan"

IsZero(x) == x.k = "num" /\ x.s = 0

Neg(x) == IF x.k \in {"str", "nan"} THEN x ELSE [x EXCEPT !.s = -x.s]

\* round to nearest, ties to even, on MantBits bits
RoundUp(m, d) ==
    /\ BigBit(m, d - 1) = 1
    /\ (~BigLowZero(m, d - 1) \/ BigBit(m, d) = 1)

Round(s, m, e) ==
    LET d == BitLen(m) - MantBits
    IN  Flt(s,
            IF d <= 0 THEN m
            ELSE IF RoundUp(m, d) THEN BigAdd(BigShr(m, d), <<1>>)
            ELSE BigShr(m, d),
            IF d <= 0 THEN e ELSE e + d)

\* sx * a * 2^e + sy * b * 2^e for non-zero signs
XAddAligned(sx, a, sy, b, e) ==
    IF sx = sy THEN Flt(sx, BigAdd(a, b), e)
    ELSE IF BigCmp(a, b) >= 0 THEN Flt(sx, BigSub(a, b), e)
    ELSE Flt(sy, BigSub(b, a), e)

\* x + y exactly, for finite x and y
XAdd(x, y) ==
    IF x.s = 0 THEN y
    ELSE IF y.s = 0 THEN x
    ELSE XAddAligned(x.s, BigShl(x.m, x.e - Min(x.e, y.e)),
                     y.s, BigShl(y.m, y.e - Min(x.e, y.e)), Min(x.e, y.e))

XSub(x, y) == XAdd(x, Neg(y))

\* x * y exactly, for finite x and y
XMul(x, y) == Flt(x.s * y.s, BigMul(x.m, y.m), x.e + y.e)

\* x <= y exactly, for finite x and y
XLe(x, y) == XSub(x, y).s <= 0

\* the float64 nearest to a finite number
RoundNum(z) == Round(z.s, z.m, z.e)

Add(x, y) ==
    IF x.k = "str" \/ y.k = "str" THEN Str
    ELSE IF x.k = "nan" \/ y.k = "nan" THEN NaN
    ELSE IF x.k = "inf" /\ y.k = "inf" THEN (IF x.s = y.s THEN x ELSE NaN)
    ELSE IF x.k = "inf" THEN x
    ELSE IF y.k = "inf" THEN y
    ELSE RoundNum(XAdd(x, y))

Sub(x, y) == Add(x, Neg(y))

Mul(x, y) ==
    IF x.k = "str" \/ y.k = "str" THEN Str
    ELSE IF x.k = "nan" \/ y.k = "nan" THEN NaN
    ELSE IF x.k = "inf" \/ y.k = "inf"
         THEN (IF x.s * y.s = 0 THEN NaN ELSE Inf(x.s * y.s))
    ELSE IF x.s = 0 \/ y.s = 0 THEN Zero
    ELSE Round(x.s * y.s, BigMul(x.m, y.m), x.e + y.e)

\* m1 * 2^e1 / (m2 * 2^e2) for m1, m2 # 0, correctly rounded: the quotient
\* is computed on DivBits bits and the remainder decides the last place
Sticky(qr) == BigMulLimb(qr.q, 2, IF qr.r = << >> THEN 0 ELSE 1)

DivFinite(s, m1, e1, m2, e2) ==
    LET sh == BitLen(m2) + DivBits - BitLen(m1)
    IN  Round(s, Sticky(BigDivMod(BigShl(m1, sh), m2)), e1 - e2 - sh - 1)

\* numpy float64 division: x/0 is nan for x = 0 and a signed infinity otherwise
Div(x, y) ==
    IF x.k = "str" \/ y.k = "str" THEN Str
    ELSE IF x.k = "nan" \/ y.k = "nan" THEN NaN
    ELSE IF y.k = "inf" THEN (IF x.k = "inf" THEN NaN ELSE Zero)
    ELSE IF x.k = "inf" THEN Inf(x.s * (IF y.s < 0 THEN -1 ELSE 1))
    ELSE IF y.s = 0 THEN (IF x.s = 0 THEN NaN ELSE Inf(x.s))
    ELSE IF x.s = 0 THEN Zero
    ELSE IF y.m = <<1>> THEN Flt(x.s * y.s, x.m, x.e - y.e)
    ELSE DivFinite(x.s * y.s, x.m, x.e, y.m, y.e)

\* the float64 nearest to n / d
Rat(n, d) == Div(Num(n), Num(d))

\* x <= y on float64: false as soon as one side is NaN
Le(x, y) ==
    IF x.k = "nan" \/ y.k = "nan" THEN FALSE
    ELSE IF x.k = "inf" THEN (x.s < 0 \/ (y.k = "inf" /\ y.s > 0))
    ELSE IF y.k = "inf" THEN y.s > 0
    ELSE XLe(x, y)

\* sqrt(m * 2^e) for m # 0, correctly rounded: the root of m scaled to at
\* least 2 * SqrtBits bits, and whether it is exact decides the last place
\* floor(sqrt(a)) and whether a - floor(sqrt(a))^2 is 0
BigSqrtRem(a, q) == [q |-> q, r |-> IF BigMul(q, q) = a THEN << >> ELSE <<1>>]

SqrtShift(m, e) ==
    LET t0 == Max(0, 2 * SqrtBits - BitLen(m))
    IN  IF (e - t0) % 2 = 0 THEN t0 ELSE t0 + 1

SqrtFinite(m, e) ==
    Round(1, Sticky(BigSqrtRem(BigShl(m, SqrtShift(m, e)),
                               BigSqrt(BigShl(m, SqrtShift(m, e))))),
          (e - SqrtShift(m, e)) \div 2 - 1)

\* np.sqrt: nan for a negative number (numpy warns, does not raise)
Sqrt(x) ==
    IF x.k \in {"str", "nan"} THEN x
    ELSE IF x.s < 0 THEN NaN
    ELSE IF x.k = "inf" \/ x.s = 0 THEN x
    ELSE SqrtFinite(x.m, x.e)

\* the C cast of a finite double to int64: truncation toward zero
Trunc(x) == IF x.e >= 0 THEN x ELSE Flt(x.s, BigShr(x.m, -x.e), 0)

\* the value of a long natural below Base^2
NatOfBig(a) == IF a = << >> THEN 0 ELSE a[1] + (IF Len(a) > 1 THEN a[2] * Base ELSE 0)

\* the greatest integer <= x, for a finite x of small magnitude
Floor(x) ==
    IF x.s = 0 THEN 0
    ELSE LET n == NatOfBig(IF x.e >= 0 THEN BigShl(x.m, x.e) ELSE BigShr(x.m, -x.e))
         IN  IF x.s > 0 THEN n ELSE (IF x.e >= 0 THEN -n ELSE -n - 1)

(***************************************************************************)
(* numpy arrays: rows, cols, dtype and the cells at 0-based (row, column). *)
(***************************************************************************)
None == [rows |-> 0, cols |-> 0, dtype |-> "None", at |-> << >>]

IsNone(a) == a.dtype = "None"

Index(rows, cols) == (0 .. rows - 1) \X (0 .. cols - 1)

Array(rows, cols, dtype, at) ==
    [rows |-> rows, cols |-> cols, dtype |-> dtype, at |-> at]

Shape(a) == <<a.rows, a.cols>>

Cells(a) == {a.at[p] : p \in Index(a.rows, a.cols)}

(***************************************************************************)
(* The CSV file: whether it exists and its lines of cells.                 *)
(***************************************************************************)
File(exists, lines) == [exists |-> exists, lines |-> lines]

\* pandas gives a column with a non-numeric cell the object dtype: all its
\* cells stay strings; a short line is padded with NaN
ColumnIsObject(lines, c) ==
    \E r \in 1 .. Len(lines) : c <= Len(lines[r]) /\ lines[r][c].k = "str"

ParsedCell(lines, r, c) ==
    IF c > Len(lines[r]) THEN NaN
    ELSE IF ColumnIsObject(lines, c) THEN Str
    ELSE lines[r][c]

ParsedDtype(lines) ==
    IF \E c \in 1 .. Len(lines[1]) : ColumnIsObject(lines, c) THEN "object"
    ELSE IF \E r \in 1 .. Len(lines) : Len(lines[r]) < Len(lines[1]) THEN "float64"
    ELSE "int64"

\* pd.read_csv(file_path, header=None).values
read_csv(file) ==
    IF ~file.exists THEN [err |-> "FileNotFoundError", value |-> None]
    ELSE IF file.lines = << >> THEN [err |-> "EmptyDataError", value |-> None]
    ELSE IF \E r \in 1 .. Len(file.lines) : Len(file.lines[r]) > Len(file.lines[1])
         THEN [err |-> "ParserError", value |-> None]
    ELSE [err |-> "",
          value |-> LET lines == file.lines
                        Cell(r, c) == ParsedCell(lines, r + 1, c + 1)
                    IN  Array(Len(lines), Len(lines[1]), ParsedDtype(lines),
                              [ix \in Index(Len(lines), Len(lines[1])) |-> Cell(ix[1], ix[2])])]

\* try: return read_csv(...).values  except Exception: print(...); return None
load_voltage_data(file) == read_csv(file).value

(***************************************************************************)
(* scipy.ndimage.gaussian_filter(input, sigma=0.5): a 5-tap symmetric      *)
(* kernel correlated along axis 0, then along axis 1, mode "reflect"; the  *)
(* output keeps the input's dtype, so an int64 line is cast back to int64  *)
(* (truncated toward zero) after each pass.                                *)
(***************************************************************************)
Reflect(idx, n) ==
    LET m == idx % (2 * n) IN IF m < n THEN m ELSE 2 * n - 1 - m

\* np.exp(-0.5 / sigma2 * x ** 2) at x = 1 and x = 2 for sigma = 0.5
ExpMinus2 == Flt(1, <<24691, 20959, 21162, 34>>, -53)    \* 0.1353352832366127

ExpMinus8 == Flt(1, <<10157, 2080, 28804, 175>>, -64)    \* 0.00033546262790251185

\* np.exp(-0.5 / sigma2 * x ** 2) at x = -KernelRadius .. KernelRadius
Phi(x) == IF x = 0 THEN Num(1) ELSE IF Abs(x) = 1 THEN ExpMinus2 ELSE ExpMinus8

\* phi_x.sum(): the terms added from x = -KernelRadius up to x
RECURSIVE PhiSum(_)
PhiSum(x) == IF x = -KernelRadius THEN Phi(x) ELSE Add(PhiSum(x - 1), Phi(x))

\* phi_x / phi_x.sum()
Weight(x) == Div(Phi(x), PhiSum(KernelRadius))

\* the weights at x = 0 .. KernelRadius of the symmetric kernel
Weights == <<Weight(0), Weight(1), Weight(2)>>

\* the input line through (r, c) along the axis, at offset o, reflected
Tap(a, axis, r, c, o) ==
    IF axis = 0 THEN a.at[<<Reflect(r + o, a.rows), c>>]
    ELSE a.at[<<r, Reflect(c + o, a.cols)>>]

\* the symmetric kernel's sum: the centre tap times its weight, then
\* (line[jj] + line[-jj]) * weight[jj] added for jj = -KernelRadius .. -1
RECURSIVE LineSum(_, _, _, _, _)
LineSum(a, axis, r, c, jj) ==
    IF jj < -KernelRadius THEN Mul(Tap(a, axis, r, c, 0), Weights[1])
    ELSE Add(LineSum(a, axis, r, c, jj - 1),
             Mul(Add(Tap(a, axis, r, c, jj), Tap(a, axis, r, c, -jj)), Weights[1 - jj]))

\* the cast of a finite sum to the output's dtype
CastTo(dtype, v) == IF dtype = "int64" THEN Trunc(v) ELSE v

Correlate1dCell(a, axis, r, c) ==
    IF \E o \in (-KernelRadius) .. KernelRadius : Tap(a, axis, r, c, o).k # "num"
    THEN NaN
    ELSE CastTo(a.dtype, LineSum(a, axis, r, c, -1))

Correlate1d(a, axis) ==
    Array(a.rows, a.cols, a.dtype,
          [ix \in Index(a.rows, a.cols) |-> Correlate1dCell(a, axis, ix[1], ix[2])])

gaussian_filter(a) ==
    IF a.dtype \in {"object", "None"} THEN [err |-> "RuntimeError", value |-> None]
    ELSE [err |-> "", value |-> Correlate1d(Correlate1d(a, 0), 1)]

(***************************************************************************)
(* np.gradient(f, h0, h1): per axis, centered differences inside and       *)
(* first-order one-sided differences at both ends; float64 output.         *)
(***************************************************************************)
Two == Num(2)

GradientCell(f, axis, h, r, c) ==
    LET n == IF axis = 0 THEN f.rows ELSE f.cols
        k == IF axis = 0 THEN r ELSE c
        At(m) == IF axis = 0 THEN f.at[<<m, c>>] ELSE f.at[<<r, m>>]
    IN  IF k = 0 THEN Div(Sub(At(1), At(0)), h)
        ELSE IF k = n - 1 THEN Div(Sub(At(n - 1), At(n - 2)), h)
        ELSE Div(Sub(At(k + 1), At(k - 1)), Mul(Two, h))

GradientAxis(f, axis, h) ==
    Array(f.rows, f.cols, "float64",
          [ix \in Index(f.rows, f.cols) |-> GradientCell(f, axis, h, ix[1], ix[2])])

\* "" or the exception np.gradient raises; the axes are handled in order
GradientError(f) ==
    IF f.rows < 2 THEN "ValueError"
    ELSE IF f.dtype = "object" THEN "TypeError"
    ELSE IF f.cols < 2 THEN "ValueError"
    ELSE ""

gradient(f, h0, h1) ==
    IF GradientError(f) # "" THEN [err |-> GradientError(f), g0 |-> None, g1 |-> None]
    ELSE [err |-> "", g0 |-> GradientAxis(f, 0, h0), g1 |-> GradientAxis(f, 1, h1)]

\* unary minus of an array
Negative(a) ==
    Array(a.rows, a.cols, a.dtype, [ix \in Index(a.rows, a.cols) |-> Neg(a.at[ix])])

\* Ey, Ex = np.gradient(-voltage_data, dy, dx); return Ex, Ey
\* faulty variant of calculate_electric_field: the two components are swapped
calculate_electric_field_swapped(V, sx, sy) ==
    IF V.dtype = "object" THEN [err |-> "TypeError", Ex |-> None, Ey |-> None]
    ELSE LET g == gradient(Negative(V), sy, sx)
         IN  [err |-> g.err, Ex |-> g.g0, Ey |-> g.g1]

\* faulty variant of calculate_electric_field: forward differences (np.diff)
\* in place of np.gradient, which lose the last column of Ex and the last row of Ey
calculate_electric_field_diff(V, sx, sy) ==
    IF V.dtype = "object" THEN [err |-> "TypeError", Ex |-> None, Ey |-> None]
    ELSE [err |-> "",
          Ex |-> Array(V.rows, V.cols - 1, "float64",
                       [ix \in Index(V.rows, V.cols - 1) |->
                           Div(Sub(Neg(V.at[<<ix[1], ix[2] + 1>>]), Neg(V.at[ix])), sx)]),
          Ey |-> Array(V.rows - 1, V.cols, "float64",
                       [ix \in Index(V.rows - 1, V.cols) |->
                           Div(Sub(Neg(V.at[<<ix[1] + 1, ix[2]>>]), Neg(V.at[ix])), sy)])]

FieldOf(g) == [err |-> g.err, Ex |-> g.g1, Ey |-> g.g0]

calculate_electric_field(V, sx, sy) ==
    IF V.dtype = "object" THEN [err |-> "TypeError", Ex |-> None, Ey |-> None]
    ELSE FieldOf(gradient(Negative(V), sy, sx))

\* grad_y, grad_x = np.gradient(potential_data); Ey, Ex = -grad_y, -grad_x
NegativeFieldOf(g) ==
    IF g.err # "" THEN [err |-> g.err, Ex |-> None, Ey |-> None]
    ELSE [err |-> "", Ex |-> Negative(g.g1), Ey |-> Negative(g.g0)]

lab_electric_field(V) == NegativeFieldOf(gradient(V, Num(1), Num(1)))

\* np.sqrt(Ex**2 + Ey**2)
Magnitude(FEx, FEy) ==
    Array(FEx.rows, FEx.cols, "float64",
          [ix \in Index(FEx.rows, FEx.cols) |->
              Sqrt(Add(Mul(FEx.at[ix], FEx.at[ix]), Mul(FEy.at[ix], FEy.at[ix])))])

(***************************************************************************)
(* lab.py: RegularGridInterpolator((y_orig, x_orig), E_magnitude,          *)
(* bounds_error=False, fill_value=None) evaluated at the InterpPoints x    *)
(* InterpPoints points of np.linspace(0, n - 1, InterpPoints).             *)
(***************************************************************************)
\* np.linspace(0, n - 1, InterpPoints)[k]: k * step, the last point set to n - 1
Linspace(n, k) ==
    IF k = InterpPoints - 1 THEN Num(n - 1)
    ELSE Mul(Num(k), Div(Num(n - 1), Num(InterpPoints - 1)))

\* find_indices of scipy.interpolate (1.10 and later): the interval lo with
\* grid[lo] <= x < grid[lo + 1], clipped to 0 .. n - 2, for grid = 0 .. n - 1
FindIndex(x, n) == Max(0, Min(n - 2, Floor(x)))

\* norm_distance = (x - grid[i]) / (grid[i + 1] - grid[i])
NormDistance(x, k) == Div(Sub(x, Num(k)), Sub(Num(k + 1), Num(k)))

\* one interpolation coordinate along an axis of n grid lines: its cell, its
\* norm_distance and 1 - norm_distance
AxisPoint(n, k) ==
    LET x == Linspace(n, k)
        lo == FindIndex(x, n)
        t == NormDistance(x, lo)
    IN  [lo |-> lo, t |-> t, u |-> Sub(Num(1), t)]

\* the InterpPoints coordinates of one axis (lab.py 43-44)
RECURSIVE AxisPoints(_, _)
AxisPoints(n, count) ==
    IF count = 0 THEN << >>
    ELSE Append(AxisPoints(n, count - 1), AxisPoint(n, count - 1))

\* evaluate_linear_2d of scipy.interpolate (1.10 and later): each corner's
\* value times (1 - y0) or y0, then times (1 - y1) or y1, added to the
\* running sum
InterpolateAt(a, y, x) ==
    Add(Add(Add(Mul(Mul(a.at[<<y.lo, x.lo>>], y.u), x.u),
                Mul(Mul(a.at[<<y.lo, x.lo + 1>>], y.u), x.t)),
            Mul(Mul(a.at[<<y.lo + 1, x.lo>>], y.t), x.u)),
        Mul(Mul(a.at[<<y.lo + 1, x.lo + 1>>], y.t), x.t))

\* density_interp(points).reshape(ny, nx)
InterpolateGrid(a) ==
    LET ys == AxisPoints(a.rows, InterpPoints)
        xs == AxisPoints(a.cols, InterpPoints)
    IN  Array(InterpPoints, InterpPoints, "float64",
              [ix \in Index(InterpPoints, InterpPoints) |->
                  InterpolateAt(a, ys[ix[1] + 1], xs[ix[2] + 1])])

\* the least and the greatest of a set of finite numbers
Least(S) == CHOOSE v \in S : \A w \in S : Le(v, w)

Greatest(S) == CHOOSE v \in S : \A w \in S : Le(w, v)

RowCells(a, r) == {a.at[<<r, c>>] : c \in 0 .. a.cols - 1}

\* ndarray.min() / ndarray.max(): NaN as soon as one cell is NaN
ArrayMin(a) ==
    IF \E v \in Cells(a) : v.k = "nan" THEN NaN
    ELSE Least({Least(RowCells(a, r)) : r \in 0 .. a.rows - 1})

ArrayMax(a) ==
    IF \E v \in Cells(a) : v.k = "nan" THEN NaN
    ELSE Greatest({Greatest(RowCells(a, r)) : r \in 0 .. a.rows - 1})

DensityRange(a) == Sub(ArrayMax(a), ArrayMin(a))

\* (density_grid - density_grid.min()) / (density_grid.max() - density_grid.min())
RescaleDensity(a) ==
    LET lo == ArrayMin(a)
        range == DensityRange(a)
    IN  Array(a.rows, a.cols, "float64",
              [ix \in Index(a.rows, a.cols) |-> Div(Sub(a.at[ix], lo), range)])

(***************************************************************************)
(* 3dlab.py: the arrow sampling stride and the normalisation of an arrow.  *)
(***************************************************************************)
\* step = max(rows//15, cols//15)
ArrowStep(rows, cols) == Max(rows \div StrideDiv, cols \div StrideDiv)

\* the literal 1e-10: the float64 nearest to 1 / 10^10
Epsilon == Div(Num(1), Mul(Num(100000), Num(100000)))

\* field_magnitude + 1e-10
\* faulty variant of Denominator: the 1e-10 is left out
DenominatorNoFloor(field_magnitude) == field_magnitude

Denominator(field_magnitude) == Add(field_magnitude, Epsilon)

\* faulty variant of Normalize: divides by the bare magnitude
NormalizeByMagnitude(ex, ey, field_magnitude) ==
    [denom |-> field_magnitude,
     Ex_norm |-> Div(ex, field_magnitude),
     Ey_norm |-> Div(ey, field_magnitude)]

\* Ex_norm = Ex[i, j] / (field_magnitude + 1e-10), likewise Ey_norm
Normalize(ex, ey, field_magnitude) ==
    [denom |-> Denominator(field_magnitude),
     Ex_norm |-> Div(ex, Denominator(field_magnitude)),
     Ey_norm |-> Div(ey, Denominator(field_magnitude))]

NoArrow == [i |-> -1, j |-> -1, Ex |-> Zero, Ey |-> Zero, magnitude |-> Zero,
            denom |-> Num(1), Ex_norm |-> NaN, Ey_norm |-> NaN]

ArrowAt(r, c, FEx, FEy, mag) ==
    LET nv == Normalize(FEx.at[<<r, c>>], FEy.at[<<r, c>>], mag.at[<<r, c>>])
    IN  [i |-> r, j |-> c, Ex |-> FEx.at[<<r, c>>], Ey |-> FEy.at[<<r, c>>],
         magnitude |-> mag.at[<<r, c>>], denom |-> nv.denom,
         Ex_norm |-> nv.Ex_norm, Ey_norm |-> nv.Ey_norm]

(***************************************************************************)
(* The inputs: CSV files of integer readings, and the malformed and        *)
(* unreadable files.  lab.py reads 1 volt everywhere, or 1 volt plus a     *)
(* peak with or without unit ramps along both axes.  3dlab.py reads a zero *)
(* background with at most one peak, on at least 2 x 2 cells.  Malformed  *)
(* files are small, and one ragged file is tall enough for the arrows.     *)
(***************************************************************************)
PatternCell(base, rampRows, rampCols, amp, peak, r, c) ==
    Num(base + (IF rampRows THEN r - 1 ELSE 0) + (IF rampCols THEN c - 1 ELSE 0)
             + (IF peak = <<r, c>> THEN amp ELSE 0))

PatternLines(shape, base, rampRows, rampCols, amp, peak) ==
    [r \in 1 .. shape[1] |->
        [c \in 1 .. shape[2] |->
            PatternCell(base, rampRows, rampCols, amp, peak, r, c)]]

NoPeak == <<0, 0>>

PeaksIn(peaks, sh) == {q \in peaks : q[1] <= sh[1] /\ q[2] <= sh[2]}

RampPatterns(shapes, peaks) ==
    {PatternLines(sh, 1, rr, rc, 0, NoPeak) : sh \in shapes, rr \in BOOLEAN, rc \in BOOLEAN}
    \cup UNION {{PatternLines(sh, 1, rr, rc, PeakVolts, pk) :
                    pk \in PeaksIn(peaks, sh), rr \in BOOLEAN}
                : sh \in shapes, rc \in BOOLEAN}

\* lab.py's inputs leave the pure ramps out: their magnitude is the same
\* non-zero number everywhere, and whether density_grid.max() - min() is
\* then exactly 0 hangs on the last bit of the float64 interpolation weights
LabPatterns(shapes, peaks) ==
    {PatternLines(sh, 1, FALSE, FALSE, 0, NoPeak) : sh \in shapes}
    \cup UNION {{PatternLines(sh, 1, ramp, ramp, PeakVolts, pk) :
                    pk \in PeaksIn(peaks, sh)}
                : sh \in shapes, ramp \in BOOLEAN}

PeakPatterns(shapes, peaks) ==
    {PatternLines(sh, 0, FALSE, FALSE, 0, NoPeak) : sh \in shapes}
    \cup UNION {{PatternLines(sh, 0, FALSE, FALSE, PeakVolts, pk) : pk \in PeaksIn(peaks, sh)}
                : sh \in {q \in shapes : q[1] >= 2 /\ q[2] >= 2}}

SmallSizes == 1 .. MaxSmall

TallSizes == {StrideDiv * k + e : k \in 1 .. MaxStride, e \in 0 .. MaxExtra}

SmallShapes == SmallSizes \X SmallSizes

TallShapes == (TallSizes \X (2 .. MaxSmall)) \cup ((2 .. MaxSmall) \X TallSizes)

\* malformed files stay within the smoothing kernel's reach
BadShapes ==
    (2 .. Min(MaxSmall, KernelRadius + 1)) \X (2 .. Min(MaxSmall, KernelRadius + 1))

PipelinePeaks == {<<1, 1>>, <<2, 2>>}

AllPeaks == SmallShapes

DropLastCell(lines) ==
    [lines EXCEPT ![Len(lines)] = SubSeq(@, 1, Len(@) - 1)]

AddLastCell(lines) ==
    [lines EXCEPT ![Len(lines)] = Append(@, Num(1))]

WithText(lines) == [lines EXCEPT ![1][1] = Str]

\* a tall ragged file: its grid reaches the arrow loops
TallRaggedShapes == {<<StrideDiv, 2>>}

RaggedFiles ==
    {File(TRUE, DropLastCell(l)) : l \in RampPatterns(BadShapes, {})}
    \cup {File(TRUE, DropLastCell(l)) : l \in PeakPatterns(TallRaggedShapes, {})}

TextFiles == {File(TRUE, WithText(l)) : l \in RampPatterns(BadShapes, {})}

UnreadableFiles ==
    {File(FALSE, << >>), File(TRUE, << >>)}
    \cup {File(TRUE, AddLastCell(l)) : l \in RampPatterns(BadShapes, {})}

WellFormedFiles(s) ==
    IF s = "3dlab"
    THEN {File(TRUE, l) : l \in PeakPatterns(SmallShapes \cup TallShapes, PipelinePeaks)}
    ELSE {File(TRUE, l) : l \in LabPatterns(SmallShapes, PipelinePeaks)}

Files(s) == WellFormedFiles(s) \cup RaggedFiles \cup TextFiles \cup UnreadableFiles

(***************************************************************************)
(* The scripts.                                                            *)
(***************************************************************************)
Init ==
    /\ script \in {"3dlab", "lab"}
    /\ csv \in Files(script)
    /\ pc = "start"
    /\ err = ""
    /\ reported = ""
    /\ calls = << >>
    /\ voltage_data = None
    /\ loaded = None
    /\ fieldSource = None
    /\ surface = None
    /\ dx = Zero
    /\ dy = Zero
    /\ Ex = None
    /\ Ey = None
    /\ E_magnitude = None
    /\ step = 0
    /\ i = 0
    /\ j = 0
    /\ visited = {}
    /\ arrow = NoArrow
    /\ density_grid = None
    /\ density_range = Zero

\* faulty variant of Load3d: the caller goes on when the loader returned None
Load3dUnchecked ==
    /\ script = "3dlab"
    /\ pc = "start"
    /\ calls' = Append(calls, "load_voltage_data")
    /\ voltage_data' = load_voltage_data(csv)
    /\ loaded' = load_voltage_data(csv)
    /\ reported' = read_csv(csv).err
    /\ pc' = "loaded"
    /\ UNCHANGED <<script, csv, err, fieldSource, surface, dx, dy, Ex, Ey,
                   E_magnitude, step, i, j, visited, arrow, density_grid,
                   density_range>>

\* faulty variant of Smooth: the grid is smoothed again after the field is computed
SmoothAgain ==
    /\ script = "3dlab"
    /\ pc \in {"loaded", "field"}
    /\ Len(calls) < 4
    /\ calls' = Append(calls, "gaussian_filter")
    /\ \E r \in {gaussian_filter(voltage_data)} :
           /\ err' = r.err
           /\ pc' = IF r.err # "" THEN "raised"
                    ELSE IF pc = "loaded" THEN "smoothed" ELSE pc
           /\ voltage_data' = IF r.err # "" THEN voltage_data ELSE r.value
    /\ UNCHANGED <<script, csv, reported, loaded, fieldSource, surface, dx, dy,
                   Ex, Ey, E_magnitude, step, i, j, visited, arrow,
                   density_grid, density_range>>

\* 3dlab.py 116-119: voltage_data = load_voltage_data(file_path);
\* if voltage_data is None: return
Load3d ==
    /\ script = "3dlab"
    /\ pc = "start"
    /\ calls' = Append(calls, "load_voltage_data")
    /\ voltage_data' = load_voltage_data(csv)
    /\ loaded' = load_voltage_data(csv)
    /\ reported' = read_csv(csv).err
    /\ pc' = IF IsNone(load_voltage_data(csv)) THEN "returned" ELSE "loaded"
    /\ UNCHANGED <<script, csv, err, fieldSource, surface, dx, dy, Ex, Ey,
                   E_magnitude, step, i, j, visited, arrow, density_grid,
                   density_range>>

\* 3dlab.py 122: voltage_data = gaussian_filter(voltage_data, sigma=0.5)
Smooth ==
    /\ script = "3dlab"
    /\ pc = "loaded"
    /\ calls' = Append(calls, "gaussian_filter")
    /\ \E r \in {gaussian_filter(voltage_data)} :
           /\ err' = r.err
           /\ pc' = IF r.err # "" THEN "raised" ELSE "smoothed"
           /\ voltage_data' = IF r.err # "" THEN voltage_data ELSE r.value
    /\ UNCHANGED <<script, csv, reported, loaded, fieldSource, surface, dx, dy,
                   Ex, Ey, E_magnitude, step, i, j, visited, arrow,
                   density_grid, density_range>>

\* 3dlab.py 25-29: plot_3d_field calls calculate_electric_field(voltage_data)
Field3d ==
    /\ script = "3dlab"
    /\ pc = "smoothed"
    /\ calls' = Append(calls, "calculate_electric_field")
    /\ fieldSource' = voltage_data
    /\ dx' = Rat(1, 2)
    /\ dy' = Rat(1, 2)
    /\ \E r \in {calculate_electric_field(voltage_data, Rat(1, 2), Rat(1, 2))} :
           /\ err' = r.err
           /\ pc' = IF r.err # "" THEN "raised" ELSE "field"
           /\ Ex' = r.Ex
           /\ Ey' = r.Ey
    /\ UNCHANGED <<script, csv, reported, voltage_data, loaded, surface,
                   E_magnitude, step, i, j, visited, arrow, density_grid,
                   density_range>>

\* 3dlab.py 32 / lab.py 27: E_magnitude = np.sqrt(Ex**2 + Ey**2)
ComputeMagnitude ==
    /\ pc = "field"
    /\ E_magnitude' = Magnitude(Ex, Ey)
    /\ pc' = "magnitude"
    /\ UNCHANGED <<script, csv, err, reported, calls, voltage_data, loaded,
                   fieldSource, surface, dx, dy, Ex, Ey, step, i, j, visited,
                   arrow, density_grid, density_range>>

\* 3dlab.py 39-51: plot_surface and contour of voltage_data
PlotSurface ==
    /\ script = "3dlab"
    /\ pc = "magnitude"
    /\ calls' = Append(calls, "plot_surface")
    /\ surface' = voltage_data
    /\ pc' = "surface"
    /\ UNCHANGED <<script, csv, err, reported, voltage_data, loaded,
                   fieldSource, dx, dy, Ex, Ey, E_magnitude, step, i, j,
                   visited, arrow, density_grid, density_range>>

\* 3dlab.py 54-63: step = max(rows//15, cols//15); range(0, rows, step)
\* raises ValueError when step is 0
Stride ==
    /\ script = "3dlab"
    /\ pc = "surface"
    /\ step' = ArrowStep(voltage_data.rows, voltage_data.cols)
    /\ err' = IF ArrowStep(voltage_data.rows, voltage_data.cols) = 0
              THEN "ValueError" ELSE ""
    /\ pc' = IF ArrowStep(voltage_data.rows, voltage_data.cols) = 0
             THEN "raised" ELSE "loop"
    /\ i' = 0
    /\ j' = 0
    /\ UNCHANGED <<script, csv, reported, calls, voltage_data, loaded,
                   fieldSource, surface, dx, dy, Ex, Ey, E_magnitude, visited,
                   arrow, density_grid, density_range>>

\* 3dlab.py 63-81: one iteration of the arrow loops, then plt.show() after the last
Arrow ==
    /\ script = "3dlab"
    /\ pc = "loop"
    /\ arrow' = ArrowAt(i, j, Ex, Ey, E_magnitude)
    /\ visited' = visited \cup {<<i, j>>}
    /\ calls' = IF visited = {} THEN Append(calls, "normalize") ELSE calls
    /\ j' = IF j + step < voltage_data.cols THEN j + step ELSE 0
    /\ i' = IF j + step < voltage_data.cols THEN i ELSE i + step
    /\ pc' = IF j + step >= voltage_data.cols /\ i + step >= voltage_data.rows
             THEN "done" ELSE "loop"
    /\ UNCHANGED <<script, csv, err, reported, voltage_data, loaded,
                   fieldSource, surface, dx, dy, Ex, Ey, E_magnitude, step,
                   density_grid, density_range>>

\* lab.py 16: potential_data = pd.read_csv(csv_path, header=None).values
LoadLab ==
    /\ script = "lab"
    /\ pc = "start"
    /\ calls' = Append(calls, "read_csv")
    /\ err' = read_csv(csv).err
    /\ voltage_data' = read_csv(csv).value
    /\ loaded' = read_csv(csv).value
    /\ pc' = IF read_csv(csv).err # "" THEN "raised" ELSE "loaded"
    /\ UNCHANGED <<script, csv, reported, fieldSource, surface, dx, dy, Ex, Ey,
                   E_magnitude, step, i, j, visited, arrow, density_grid,
                   density_range>>

\* lab.py 23-24: grad_y, grad_x = np.gradient(potential_data); Ey, Ex = -grad_y, -grad_x
FieldLab ==
    /\ script = "lab"
    /\ pc = "loaded"
    /\ calls' = Append(calls, "gradient")
    /\ fieldSource' = voltage_data
    /\ dx' = Num(1)
    /\ dy' = Num(1)
    /\ \E r \in {lab_electric_field(voltage_data)} :
           /\ err' = r.err
           /\ pc' = IF r.err # "" THEN "raised" ELSE "field"
           /\ Ex' = r.Ex
           /\ Ey' = r.Ey
    /\ UNCHANGED <<script, csv, reported, voltage_data, loaded, surface,
                   E_magnitude, step, i, j, visited, arrow, density_grid,
                   density_range>>

\* lab.py 30-53: contour of potential_data; the magnitude interpolated on the
\* 30 x 30 streamplot grid
Interpolate ==
    /\ script = "lab"
    /\ pc = "magnitude"
    /\ calls' = Append(calls, "contour")
    /\ surface' = voltage_data
    /\ density_grid' = InterpolateGrid(E_magnitude)
    /\ pc' = "interpolated"
    /\ UNCHANGED <<script, csv, err, reported, voltage_data, loaded,
                   fieldSource, dx, dy, Ex, Ey, E_magnitude, step, i, j,
                   visited, arrow, density_range>>

\* lab.py 56: the min-max rescaling of density_grid; numpy divides by zero
\* without raising
Rescale ==
    /\ script = "lab"
    /\ pc = "interpolated"
    /\ density_range' = DensityRange(density_grid)
    /\ density_grid' = RescaleDensity(density_grid)
    /\ pc' = "done"
    /\ UNCHANGED <<script, csv, err, reported, calls, voltage_data, loaded,
                   fieldSource, surface, dx, dy, Ex, Ey, E_magnitude, step, i,
                   j, visited, arrow>>

Next ==
    \/ Load3d
    \/ Smooth
    \/ Field3d
    \/ ComputeMagnitude
    \/ PlotSurface
    \/ Stride
    \/ Arrow
    \/ LoadLab
    \/ FieldLab
    \/ Interpolate
    \/ Rescale

Spec == Init /\ [][Next]_vars

(***************************************************************************)
(* Direct calls of calculate_electric_field(voltage_data, dx, dy) on an    *)
(* array in memory, and of lab.py's field computation on the same arrays.  *)
(***************************************************************************)
NoFile == File(FALSE, << >>)

ArrayOf(lines) == read_csv(File(TRUE, lines)).value

Spacings == {Rat(h, 2) : h \in 1 .. MaxHalves}

FieldArrays == {ArrayOf(l) : l \in RampPatterns(SmallShapes, AllPeaks)}

InitField ==
    /\ script \in {"calculate_electric_field", "lab"}
    /\ csv = NoFile
    /\ pc = IF script = "lab" THEN "loaded" ELSE "call"
    /\ err = ""
    /\ reported = ""
    /\ calls = << >>
    /\ voltage_data \in FieldArrays
    /\ loaded = voltage_data
    /\ fieldSource = None
    /\ surface = None
    /\ dx \in (IF script = "lab" THEN {Zero} ELSE Spacings)
    /\ dy \in (IF script = "lab" THEN {Zero} ELSE Spacings)
    /\ Ex = None
    /\ Ey = None
    /\ E_magnitude = None
    /\ step = 0
    /\ i = 0
    /\ j = 0
    /\ visited = {}
    /\ arrow = NoArrow
    /\ density_grid = None
    /\ density_range = Zero

\* 3dlab.py 17-20: calculate_electric_field(voltage_data, dx, dy)
CallField ==
    /\ script = "calculate_electric_field"
    /\ pc = "call"
    /\ calls' = Append(calls, "calculate_electric_field")
    /\ fieldSource' = voltage_data
    /\ \E r \in {calculate_electric_field(voltage_data, dx, dy)} :
           /\ err' = r.err
           /\ pc' = IF r.err # "" THEN "raised" ELSE "field"
           /\ Ex' = r.Ex
           /\ Ey' = r.Ey
    /\ UNCHANGED <<script, csv, reported, voltage_data, loaded, surface, dx, dy,
                   E_magnitude, step, i, j, visited, arrow, density_grid,
                   density_range>>

NextField ==
    \/ CallField
    \/ FieldLab

SpecField == InitField /\ [][NextField]_vars

(***************************************************************************)
(* The same direct calls with the steps around them: the grid smoothed     *)
(* first or not (3dlab.py 122), the field, then its magnitude (3dlab.py    *)
(* 32, lab.py 27).                                                         *)
(***************************************************************************)
\* 3dlab.py 122 ahead of a direct call
SmoothDirect ==
    /\ script = "calculate_electric_field"
    /\ pc = "call"
    /\ calls = << >>
    /\ calls' = Append(calls, "gaussian_filter")
    /\ \E r \in {gaussian_filter(voltage_data)} :
           /\ err' = r.err
           /\ pc' = IF r.err # "" THEN "raised" ELSE "call"
           /\ voltage_data' = IF r.err # "" THEN voltage_data ELSE r.value
    /\ UNCHANGED <<script, csv, reported, loaded, fieldSource, surface, dx, dy,
                   Ex, Ey, E_magnitude, step, i, j, visited, arrow,
                   density_grid, density_range>>

ShapeArrays == {ArrayOf(l) : l \in LabPatterns(SmallShapes, PipelinePeaks)}

InitShapes ==
    /\ InitField
    /\ voltage_data \in ShapeArrays

NextShapes ==
    \/ SmoothDirect
    \/ CallField
    \/ FieldLab
    \/ ComputeMagnitude

SpecShapes == InitShapes /\ [][NextShapes]_vars

(***************************************************************************)
(* Direct application of the magnitude and the normalisation (3dlab.py 32, *)
(* 66-68) to one float64 vector.                                           *)
(***************************************************************************)
Scalar(v) == [rows |-> 1, cols |-> 1, dtype |-> "float64",
              at |-> [p \in Index(1, 1) |-> v]]

\* small components, and components within MaxComp / TinyDen of 1
Components ==
    {Rat(a, d) : a \in (-MaxComp) .. MaxComp, d \in {1, 2, TinyDen}}
    \cup {Rat(TinyDen + a, TinyDen) : a \in (-MaxComp) .. MaxComp}

Vectors == Components \X Components

InitNormalize ==
    /\ script = "normalize"
    /\ csv = NoFile
    /\ pc = "field"
    /\ err = ""
    /\ reported = ""
    /\ calls = << >>
    /\ voltage_data = None
    /\ loaded = None
    /\ fieldSource = None
    /\ surface = None
    /\ dx = Zero
    /\ dy = Zero
    /\ \E v \in Vectors : Ex = Scalar(v[1]) /\ Ey = Scalar(v[2])
    /\ E_magnitude = None
    /\ step = 0
    /\ i = 0
    /\ j = 0
    /\ visited = {}
    /\ arrow = NoArrow
    /\ density_grid = None
    /\ density_range = Zero

\* 3dlab.py 66-68 at the one point (0, 0)
NormalizeVector ==
    /\ script = "normalize"
    /\ pc = "magnitude"
    /\ arrow' = ArrowAt(0, 0, Ex, Ey, E_magnitude)
    /\ visited' = {<<0, 0>>}
    /\ calls' = Append(calls, "normalize")
    /\ pc' = "done"
    /\ UNCHANGED <<script, csv, err, reported, voltage_data, loaded,
                   fieldSource, surface, dx, dy, Ex, Ey, E_magnitude, step, i,
                   j, density_grid, density_range>>

NextNormalize ==
    \/ ComputeMagnitude
    \/ NormalizeVector

SpecNormalize == InitNormalize /\ [][NextNormalize]_vars

(***************************************************************************)
(* Vocabulary of the properties.                                           *)
(***************************************************************************)
Entered(name) == \E k \in 1 .. Len(calls) : calls[k] = name

TimesEntered(name) == Cardinality({k \in 1 .. Len(calls) : calls[k] = name})

FieldCalls == {"calculate_electric_field", "gradient"}

CoreCalls == FieldCalls \cup {"gaussian_filter", "normalize"}

HasField == ~IsNone(Ex) /\ ~IsNone(Ey)

\* a grid that is rectangular, non-empty and all-numeric
WellFormed(a) ==
    /\ ~IsNone(a)
    /\ a.rows >= 1
    /\ a.cols >= 1
    /\ \A v \in Cells(a) : v.k = "num"

\* a grid from a non-rectangular file (padded with NaN) or with a non-numeric cell
Malformed(a) == ~IsNone(a) /\ \E v \in Cells(a) : v.k # "num"

\* minus the difference quotient of V along the columns, spacing h
ExpectedEx(V, h, r, c) ==
    IF c = 0 THEN Neg(Div(Sub(V.at[<<r, 1>>], V.at[<<r, 0>>]), h))
    ELSE IF c = V.cols - 1
         THEN Neg(Div(Sub(V.at[<<r, V.cols - 1>>], V.at[<<r, V.cols - 2>>]), h))
    ELSE Neg(Div(Sub(V.at[<<r, c + 1>>], V.at[<<r, c - 1>>]), Add(h, h)))

\* minus the difference quotient of V along the rows, spacing h
ExpectedEy(V, h, r, c) ==
    IF r = 0 THEN Neg(Div(Sub(V.at[<<1, c>>], V.at[<<0, c>>]), h))
    ELSE IF r = V.rows - 1
         THEN Neg(Div(Sub(V.at[<<V.rows - 1, c>>], V.at[<<V.rows - 2, c>>]), h))
    ELSE Neg(Div(Sub(V.at[<<r + 1, c>>], V.at[<<r - 1, c>>]), Add(h, h)))

\* the squared magnitude of the normalised arrow, exactly
NormSquared == XAdd(XMul(arrow.Ex_norm, arrow.Ex_norm), XMul(arrow.Ey_norm, arrow.Ey_norm))

\* 10^10, so that epsilon = 1e-10 is 1 / TenTo10 exactly
TenTo10 == XMul(Num(100000), Num(100000))

\* | sqrt(NormSquared) - 1 | <= 1e-10, exactly: in units of 1e-10,
\* (10^10 - 1)^2 <= NormSquared * 10^20 <= (10^10 + 1)^2
WithinEpsilonOfOne ==
    LET lo == XSub(TenTo10, Num(1))
        hi == XAdd(TenTo10, Num(1))
        scaled == XMul(NormSquared, XMul(TenTo10, TenTo10))
    IN  XLe(XMul(lo, lo), scaled) /\ XLe(scaled, XMul(hi, hi))

ArrowDone == arrow.i >= 0

(***************************************************************************)
(* C1.  For a grid of at least 2 x 2 cells and positive spacings, the field*)
(* computation returns Ex = minus the difference quotient of V along the   *)
(* columns over dx and Ey = minus the one along the rows over dy, centered *)
(* inside and one-sided at the first and last index; lab.py computes the   *)
(* same field with dx = dy = 1.                                            *)
(***************************************************************************)
C1_FieldIsNegativeGradient ==
    (pc \notin {"call", "loaded"} /\ voltage_data.rows >= 2 /\ voltage_data.cols >= 2)
    => /\ pc = "field"
       /\ HasField
       /\ script = "lab" => dx = Num(1) /\ dy = Num(1)
       /\ \A p \in Index(voltage_data.rows, voltage_data.cols) :
             /\ Ex.at[p] = ExpectedEx(voltage_data, dx, p[1], p[2])
             /\ Ey.at[p] = ExpectedEy(voltage_data, dy, p[1], p[2])

C1_Witness ==
    /\ script = "calculate_electric_field"
    /\ pc = "field"
    /\ Shape(voltage_data) = <<3, 3>>
    /\ dx = Rat(3, 2)
    /\ dy = Rat(1, 2)
    /\ Ex.at[<<1, 1>>] = Rat(-2, 3)
    /\ Ey.at[<<0, 1>>] = Num(-2 * PeakVolts)

(***************************************************************************)
(* C2.  For every rectangular, non-empty, all-numeric grid, a single row   *)
(* or a single column included, the field computation returns a field      *)
(* without raising.  (np.gradient raises ValueError on an axis of length 1)*)
(***************************************************************************)
C2_WellFormedNeverRaises ==
    WellFormed(voltage_data) => (pc # "raised" /\ err = "")

(***************************************************************************)
(* C3.  A malformed grid (from a non-rectangular file, or with a           *)
(* non-numeric entry) fails with InvalidInput before any gradient,         *)
(* smoothing or normalisation step runs, and never yields a field.         *)
(***************************************************************************)
C3_MalformedIsRejected ==
    Malformed(loaded)
    => /\ \A k \in 1 .. Len(calls) : calls[k] \notin CoreCalls
       /\ ~HasField
       /\ pc \in {"raised", "returned", "done"} => err = "InvalidInput"

(***************************************************************************)
(* C4 as written.  Normalising any vector of non-zero magnitude yields a   *)
(* vector whose magnitude is within epsilon of 1.0.                        *)
(***************************************************************************)
C4_NonZeroIsWithinEpsilon ==
    (ArrowDone /\ ~IsZero(arrow.magnitude)) => WithinEpsilonOfOne

(***************************************************************************)
(* C4 as amended.  A vector of magnitude m > 0 is divided by m + 1e-10, so *)
(* the result is not zero and its magnitude is m / (m + 1e-10) up to       *)
(* float64 rounding: within epsilon of 1.0 when m >= 1.001 and not within  *)
(* epsilon of 1.0 when m <= 0.999; in between the two differ from epsilon  *)
(* by less than the rounding of the division.                              *)
(***************************************************************************)
C4_NormalisedMagnitude ==
    (ArrowDone /\ ~IsZero(arrow.magnitude))
    => /\ arrow.denom = Add(arrow.magnitude, Epsilon)
       /\ arrow.Ex_norm = Div(arrow.Ex, arrow.denom)
       /\ arrow.Ey_norm = Div(arrow.Ey, arrow.denom)
       /\ ~IsZero(NormSquared)
       /\ Le(Rat(1001, 1000), arrow.magnitude) => WithinEpsilonOfOne
       /\ Le(arrow.magnitude, Rat(999, 1000)) => ~WithinEpsilonOfOne

C4_Witness ==
    /\ pc = "done"
    /\ ArrowDone
    /\ arrow.magnitude = Rat(1, 2)
    /\ ~WithinEpsilonOfOne

(***************************************************************************)
(* C5.  At every sampled lattice point of every grid that reaches the      *)
(* arrow loops, a grid holding NaN included, the normalisation divides by  *)
(* magnitude + 1e-10, which is never zero and is positive whenever it is a *)
(* number; where both field components are 0 it divides by 0 + 1e-10 and   *)
(* yields the zero vector.                                                 *)
(***************************************************************************)
C5_NoDivisionByZero ==
    ArrowDone
    => /\ arrow.denom = Add(arrow.magnitude, Epsilon)
       /\ ~IsZero(arrow.denom)
       /\ arrow.denom.k = "num" => arrow.denom.s > 0
       /\ arrow.denom.k = "nan" <=> arrow.magnitude.k = "nan"
       /\ (IsZero(arrow.Ex) /\ IsZero(arrow.Ey))
            => /\ arrow.denom = Epsilon
               /\ IsZero(arrow.Ex_norm)
               /\ IsZero(arrow.Ey_norm)

C5_Witness ==
    /\ script = "3dlab"
    /\ ArrowDone
    /\ IsZero(arrow.Ex)
    /\ IsZero(arrow.Ey)
    /\ arrow.denom = Epsilon
    /\ IsZero(arrow.Ex_norm)
    /\ \E v \in Cells(E_magnitude) : v.k = "nan"

C7_SmoothOnceBeforeField ==
    /\ TimesEntered("gaussian_filter") <= 1
    /\ \A p \in 1 .. Len(calls) : \A q \in 1 .. Len(calls) :
          (p < q /\ calls[p] \in FieldCalls) => calls[q] # "gaussian_filter"
    /\ (script = "3dlab" /\ Entered("calculate_electric_field"))
          => SubSeq(calls, 1, 3) = <<"load_voltage_data", "gaussian_filter",
                                     "calculate_electric_field">>
    /\ (~IsNone(surface) /\ ~IsNone(fieldSource)) => surface = fieldSource
    /\ ~IsNone(fieldSource) => fieldSource = voltage_data
    /\ (script = "3dlab" /\ pc = "field") => fieldSource = gaussian_filter(loaded).value

C7_Witness ==
    /\ script = "3dlab"
    /\ pc = "surface"
    /\ TimesEntered("gaussian_filter") = 1
    /\ surface = fieldSource
    /\ surface # loaded

(***************************************************************************)
(* C8.  A failed read of the CSV file never reaches the core: 3dlab.py     *)
(* prints the error, gets None and returns; lab.py lets the error          *)
(* propagate; neither smooths, differentiates or plots.                    *)
(***************************************************************************)
C8_FailedLoadStopsTheRun ==
    (pc # "start" /\ read_csv(csv).err # "")
    => /\ \A k \in 1 .. Len(calls) : calls[k] \in {"load_voltage_data", "read_csv"}
       /\ IsNone(voltage_data)
       /\ ~HasField
       /\ IsNone(surface)
       /\ script = "3dlab" => (pc = "returned" /\ err = "" /\ reported = read_csv(csv).err)
       /\ script = "lab" => (pc = "raised" /\ err = read_csv(csv).err)

C8_Witness ==
    /\ script = "3dlab"
    /\ pc = "returned"
    /\ reported = "FileNotFoundError"
    /\ calls = <<"load_voltage_data">>

(***************************************************************************)
(* C9.  For every grid the sampling stride max(rows // 15, cols // 15) is  *)
(* positive, so the arrow loops are well defined and visit (0, 0).         *)
(***************************************************************************)
C9_StrideIsPositive ==
    (script = "3dlab" /\ Entered("plot_surface") /\ pc # "surface")
    => /\ step >= 1
       /\ err = ""
       /\ pc = "done" => <<0, 0>> \in visited

(***************************************************************************)
(* C10.  For every potential grid, lab.py's min-max rescaling divides by a *)
(* non-zero range and every rescaled density lies in [0, 1].               *)
(***************************************************************************)
C10_DensityInUnitInterval ==
    (script = "lab" /\ pc = "done" /\ WellFormed(loaded))
    => /\ ~IsZero(density_range)
       /\ \A v \in Cells(density_grid) : Le(Zero, v) /\ Le(v, Num(1))

====
